---- MODULE Spec2Model ----
(***************************************************************************)
(* Model of league_dashboard.py: the matchup fetch loop (get_matchups),    *)
(* the power-ranking engine (calculate_power_rankings), the standings      *)
(* builder (format_standings), the strength view (format_strength with     *)
(* get_strength_group), the bracket split (format_winners_losers) and the  *)
(* rank-race builder (format_rank_race with apply_cumulative_rank).        *)
(*                                                                         *)
(* Data frames are sequences of records (row order is frame order).        *)
(* Floating point values are modelled as exact numbers: points are         *)
(* naturals, a win percentage wins/games is the integer wins*Scale/games   *)
(* (Scale is a multiple of every possible games), and NaN is a sentinel.   *)
(***************************************************************************)
EXTENDS Integers, Sequences, FiniteSets, TLC

(* ------------------------------ bounds -------------------------------- *)

\* Longest season the modelled API serves to the derivation pipeline.
MaxWeeks == 2

\* Total of the weekly points the modelled API hands out over a season.
MaxTotalPoints == 2

\* Largest league whose standings are split into brackets.
MaxTeams == 10

\* Largest points_for / points_against of a roster in the strength view.
MaxPoints == 2

(* ------------------------- program constants -------------------------- *)

\* `week > 15` in get_matchups.
WeekCeiling == 15

\* numpy's NaN (0/0 of two integer columns, a left join's missing value).
NaN == -1

\* A missing (null) cell of an object column.
Null == 0

(* ---------------------------- input domains --------------------------- *)

\* roster_id values of the league (get_rosters); roster r is owned by user r.
RosterIds == {1, 2, 3}

\* (wins, ties, losses) a roster's settings may hold.
Records == {<<0, 0, 0>>, <<1, 0, 0>>, <<0, 0, 1>>, <<1, 1, 0>>}

\* A multiple of every wins + ties + losses: win percentages are exact.
Scale == 6

VARIABLES
    todo,         \* the calls still to make, in order (the script's position)
    season,       \* the API: the weeks it has matchups for, at most
    week,         \* get_matchups: week
    results,      \* get_matchups: the last API response
    matchups,     \* get_matchups: the frame built so far / returned
    users,        \* get_users(): the set of user_id present
    rosters,      \* get_rosters(): one row per roster
    win_percent,  \* calculate_power_rankings: rosters_copy.win_percent
    power_ranks,  \* calculate_power_rankings(): rows (roster_id, rank_score)
    standings,    \* format_standings: the frame before the final projection
    box_scores,   \* format_rank_race: the frame before the final projection
    strength,     \* format_strength(): the frame returned
    winners,      \* format_winners_losers(): the winners bracket
    losers,       \* format_winners_losers(): the losers bracket
    raised,       \* the exception raised, "" when none
    returned      \* the calls that have returned

vars == <<todo, season, week, results, matchups, users, rosters, win_percent,
          power_ranks, standings, box_scores, strength, winners, losers,
          raised, returned>>

(* ------------------------------ helpers ------------------------------- *)

RECURSIVE SumSeq(_)
SumSeq(s) == IF s = <<>> THEN 0 ELSE Head(s) + SumSeq(Tail(s))

MapSeq(s, F(_)) == [i \in 1..Len(s) |-> F(s[i])]

\* Series.sum() of column F
SumBy(s, F(_)) == SumSeq(MapSeq(s, F))

\* pd.concat of a list of frames
RECURSIVE Concat(_)
Concat(ss) == IF ss = <<>> THEN <<>> ELSE Head(ss) \o Concat(Tail(ss))

\* Series.unique(): the distinct values, in order of first appearance.
RECURSIVE UniqueFrom(_, _)
UniqueFrom(s, seen) ==
    IF s = <<>> THEN <<>>
    ELSE IF Head(s) \in seen THEN UniqueFrom(Tail(s), seen)
    ELSE <<Head(s)>> \o UniqueFrom(Tail(s), seen \cup {Head(s)})

Unique(s) == UniqueFrom(s, {})

\* DataFrame.sort_values on several columns is a stable sort: rows that tie
\* on every key keep their order.  Before(a, b) is the strict order of the
\* keys; each row is inserted behind the rows it does not strictly precede.
SortRows(s, Before(_, _)) ==
    LET RECURSIVE Insert(_, _)
        Insert(x, t) ==
            IF t = <<>> THEN <<x>>
            ELSE IF Before(x, Head(t)) THEN <<x>> \o t
            ELSE <<Head(t)>> \o Insert(x, Tail(t))
        RECURSIVE Sorted(_)
        Sorted(n) == IF n = 0 THEN <<>> ELSE Insert(s[n], Sorted(n - 1))
    IN  Sorted(Len(s))

\* Descending order on a column that may hold NaN: NaN sorts last
\* (na_position = 'last'), and two NaN tie.
DescNaNLast(a, b) == a # NaN /\ (b = NaN \/ a > b)

(* --------------------------- the API (inputs) -------------------------- *)

\* The points already handed out in a matchups frame.
PointsSoFar(m) == SumBy(m, LAMBDA row : row.points)

\* The ways a week groups the rosters: every roster is tagged with the
\* smallest roster_id of its group, which serves as the matchup_id.
Groupings ==
    {g \in [RosterIds -> RosterIds] :
        \A r \in RosterIds : g[r] <= r /\ g[g[r]] = g[r]}

\* The non-empty responses of /matchups/{week}: one entry per roster.
WeekResponses(budget) ==
    {[r \in RosterIds |-> [roster_id |-> r, points |-> p[r], matchup_id |-> g[r]]] :
        g \in Groupings,
        p \in {q \in [RosterIds -> 0..budget] :
                 SumBy([r \in RosterIds |-> q[r]], LAMBDA x : x) <= budget}}

\* What the API may answer for week w once frame m has been fetched: nothing
\* from week season + 1 on, and nothing or a full week before.
Responses(w, m) ==
    {<<>>} \cup (IF w <= season THEN WeekResponses(MaxTotalPoints - PointsSoFar(m)) ELSE {})

(* ----------------------------- get_matchups ---------------------------- *)

\* results_df['week'] = week; results_df[['roster_id','points','matchup_id','week']]
TagWeek(resp, w) ==
    [i \in 1..Len(resp) |->
        [roster_id |-> resp[i].roster_id, points |-> resp[i].points,
         matchup_id |-> resp[i].matchup_id, week |-> w]]

\* The loop with the ceiling one week early (week >= 15).
GetMatchupsStepEarly(resp) ==
    /\ todo # <<>> /\ Head(todo) = "get_matchups"
    /\ results' = resp
    /\ IF Len(resp) = 0 \/ week >= WeekCeiling
         THEN /\ todo' = Tail(todo)
              /\ returned' = returned \cup {"get_matchups"}
              /\ UNCHANGED <<week, matchups>>
         ELSE /\ matchups' = matchups \o TagWeek(resp, week)
              /\ week' = week + 1
              /\ UNCHANGED <<todo, returned>>
    /\ UNCHANGED <<strength, winners, losers>>
    /\ UNCHANGED <<season, users, rosters, win_percent, power_ranks, standings,
                   box_scores, raised>>

\* One iteration of `while True`: fetch week `week`, then break or append.
GetMatchupsStep(resp) ==
    /\ todo # <<>> /\ Head(todo) = "get_matchups"
    /\ results' = resp
    /\ IF Len(resp) = 0 \/ week > WeekCeiling
         THEN /\ todo' = Tail(todo)
              /\ returned' = returned \cup {"get_matchups"}
              /\ UNCHANGED <<week, matchups>>
         ELSE /\ matchups' = matchups \o TagWeek(resp, week)
              /\ week' = week + 1
              /\ UNCHANGED <<todo, returned>>
    /\ UNCHANGED <<strength, winners, losers>>
    /\ UNCHANGED <<season, users, rosters, win_percent, power_ranks, standings,
                   box_scores, raised>>

GetMatchups == \E resp \in Responses(week, matchups) : GetMatchupsStep(resp)

(* ------------------------- format_rank_race ---------------------------- *)

\* matchups_copy.merge(opponents, on = ['matchup_id', 'week'], how = how):
\* every left row with every opponents row of the same matchup_id and week,
\* in left order; how = 'left' keeps an unmatched left row with missing
\* opponent cells.
PairRows(l, opps, how) ==
    LET ms == SelectSeq(opps, LAMBDA o : o.matchup_id = l.matchup_id /\ o.week = l.week)
        Row(oid, opts, wp) ==
            [roster_id |-> l.roster_id, points |-> l.points,
             matchup_id |-> l.matchup_id, week |-> l.week,
             opponent_id |-> oid, opponent_points |-> opts, win_percent |-> wp]
    IN  IF ms = <<>>
          THEN IF how = "left" THEN <<Row(NaN, NaN, NaN)>> ELSE <<>>
          ELSE [i \in 1..Len(ms) |-> Row(ms[i].roster_id, ms[i].points, ms[i].win_percent)]

Merge(left, opps, how) == Concat([i \in 1..Len(left) |-> PairRows(left[i], opps, how)])

\* The pairing with the self pairs left in.
KeepSelf(frame) == frame

\* frame[frame.roster_id != frame.opponent_id]
DropSelf(frame) == SelectSeq(frame, LAMBDA row : row.roster_id # row.opponent_id)

\* Win with a tie counted as a win.
WinOrTie(points, opponent_points) ==
    IF opponent_points # NaN /\ points >= opponent_points THEN 1 ELSE 0

\* 1 if curr_points > curr_opponent else 0
\* (a comparison with a missing opponent score is False)
Win(points, opponent_points) ==
    IF opponent_points # NaN /\ points > opponent_points THEN 1 ELSE 0

\* apply_cumulative_rank that looks at the current week alone.
ApplyWeekRank(df, frame) ==
    LET wins_df == SelectSeq(SelectSeq(frame, LAMBDA row : row.week = df.week),
                             LAMBDA row : row.roster_id = df.roster_id)
    IN  [roster_id |-> df.roster_id, points |-> df.points,
         matchup_id |-> df.matchup_id, week |-> df.week,
         opponent_id |-> df.opponent_id, opponent_points |-> df.opponent_points,
         cumulative_wins |-> SumBy(wins_df, LAMBDA row : Win(row.points, row.opponent_points)),
         cumulative_points |-> SumBy(wins_df, LAMBDA row : row.points)]

\* apply_cumulative_rank(df, box_scores): the row with its cumulative columns.
ApplyCumulativeRank(df, frame) ==
    LET wins_df == SelectSeq(SelectSeq(frame, LAMBDA row : row.week <= df.week),
                             LAMBDA row : row.roster_id = df.roster_id)
    IN  [roster_id |-> df.roster_id, points |-> df.points,
         matchup_id |-> df.matchup_id, week |-> df.week,
         opponent_id |-> df.opponent_id, opponent_points |-> df.opponent_points,
         cumulative_wins |-> SumBy(wins_df, LAMBDA row : Win(row.points, row.opponent_points)),
         cumulative_points |-> SumBy(wins_df, LAMBDA row : row.points)]

\* sort_values(['cumulative_wins', 'cumulative_points'], ascending = False)
RaceBefore(a, b) ==
    \/ a.cumulative_wins > b.cumulative_wins
    \/ a.cumulative_wins = b.cumulative_wins /\ a.cumulative_points > b.cumulative_points

\* One pass of `for week in box_scores['week'].unique()`: the week's rows,
\* sorted and numbered 1..n.
RankWeek(frame, w) ==
    LET curr_week == SortRows(SelectSeq(frame, LAMBDA row : row.week = w), RaceBefore)
    IN  [i \in 1..Len(curr_week) |->
            [roster_id |-> curr_week[i].roster_id, points |-> curr_week[i].points,
             matchup_id |-> curr_week[i].matchup_id, week |-> curr_week[i].week,
             opponent_id |-> curr_week[i].opponent_id,
             opponent_points |-> curr_week[i].opponent_points,
             cumulative_wins |-> curr_week[i].cumulative_wins,
             cumulative_points |-> curr_week[i].cumulative_points,
             rank |-> i,
             display_name |-> IF curr_week[i].roster_id \in users
                                THEN curr_week[i].roster_id ELSE Null]]

\* The opponents frame of format_rank_race (no win_percent column; the cell
\* is carried as NaN and never read).
RaceOpponents(m) ==
    [i \in 1..Len(m) |->
        [roster_id |-> m[i].roster_id, points |-> m[i].points,
         matchup_id |-> m[i].matchup_id, week |-> m[i].week, win_percent |-> NaN]]

\* The self-join of format_rank_race with the self pairs removed.
RacePairing(m) == DropSelf(Merge(m, RaceOpponents(m), "inner"))

\* The frame of format_rank_race before its columns are projected and renamed.
RaceFrame(m) ==
    LET paired == RacePairing(m)
        scored == [i \in 1..Len(paired) |-> ApplyCumulativeRank(paired[i], paired)]
        weeks  == Unique(MapSeq(scored, LAMBDA row : row.week))
    IN  Concat([k \in 1..Len(weeks) |-> RankWeek(scored, weeks[k])])

\* format_rank_race(matchups, users, rosters).  A frame without columns has
\* no 'matchup_id' to merge on, and a pairing without rows leaves `results`
\* without a 'roster_id' to merge the team names on: both raise KeyError.
FormatRankRace ==
    /\ todo # <<>> /\ Head(todo) = "format_rank_race"
    /\ IF matchups = <<>> \/ RacePairing(matchups) = <<>>
         THEN /\ raised' = "KeyError"
              /\ todo' = <<>>
              /\ UNCHANGED <<box_scores, returned>>
         ELSE /\ box_scores' = RaceFrame(matchups)
              /\ todo' = Tail(todo)
              /\ returned' = returned \cup {"format_rank_race"}
              /\ UNCHANGED raised
    /\ UNCHANGED <<strength, winners, losers>>
    /\ UNCHANGED <<season, week, results, matchups, users, rosters, win_percent,
                   power_ranks, standings>>

\* The frame format_rank_race returns: Owner, Week, Wins, Points, Rank.
RankRace(frame) ==
    [i \in 1..Len(frame) |->
        [Owner |-> frame[i].display_name, Week |-> frame[i].week,
         Wins |-> frame[i].cumulative_wins, Points |-> frame[i].cumulative_points,
         Rank |-> frame[i].rank]]

(* --------------------- calculate_power_rankings ------------------------ *)

\* rosters_copy['wins'] / rosters_copy['games']: the division of two integer
\* columns; 0 / 0 is NaN.
WinPercent(wins, games) == IF games = 0 THEN NaN ELSE (wins * Scale) \div games

\* rosters_copy[['roster_id', 'win_percent']]
RostersCopy(rs) ==
    [i \in 1..Len(rs) |->
        [roster_id |-> rs[i].roster_id,
         win_percent |-> WinPercent(rs[i].wins, rs[i].wins + rs[i].ties + rs[i].losses)]]

\* opponents.merge(rosters_copy, on = 'roster_id', how = 'left'): every
\* matchup row with the win percentage of its roster (NaN without one).
PowerOpponents(m, rc) ==
    Concat([i \in 1..Len(m) |->
        LET found == SelectSeq(rc, LAMBDA c : c.roster_id = m[i].roster_id)
            Row(wp) == [roster_id |-> m[i].roster_id, points |-> m[i].points,
                        matchup_id |-> m[i].matchup_id, week |-> m[i].week,
                        win_percent |-> wp]
        IN  IF found = <<>> THEN <<Row(NaN)>>
            ELSE [k \in 1..Len(found) |-> Row(found[k].win_percent)]])

\* The opponent pairing of one roster in calculate_power_rankings.
PowerPairing(roster, m, rc) ==
    DropSelf(Merge(SelectSeq(m, LAMBDA row : row.roster_id = roster),
                   PowerOpponents(m, rc), "left"))

\* win * win_percent (NaN when the win percentage is NaN)
RankScore(row) ==
    IF row.win_percent = NaN THEN NaN
    ELSE Win(row.points, row.opponent_points) * row.win_percent

\* groupby('roster_id').sum(): NaN cells are skipped by sum.
SumSkipNaN(s) == SumSeq(SelectSeq(s, LAMBDA x : x # NaN))

\* One pass of `for roster in rosters.roster_id.unique()`: curr_results, a
\* frame of one row, or of none when the roster has no pairing.
CurrResults(roster, m, rc) ==
    LET curr_matchups == PowerPairing(roster, m, rc)
    IN  IF curr_matchups = <<>> THEN <<>>
        ELSE <<[roster_id |-> roster,
                rank_score |-> SumSkipNaN(MapSeq(curr_matchups, RankScore))]>>

PowerRanks(m, rs) ==
    LET ids == Unique(MapSeq(rs, LAMBDA r : r.roster_id))
    IN  Concat([k \in 1..Len(ids) |-> CurrResults(ids[k], m, RostersCopy(rs))])

\* calculate_power_rankings(matchups, rosters).  A frame without columns has
\* no attribute roster_id: the first pass of the loop raises AttributeError.
CalculatePowerRankings ==
    /\ todo # <<>> /\ Head(todo) = "calculate_power_rankings"
    /\ win_percent' = RostersCopy(rosters)
    /\ IF matchups = <<>>
         THEN /\ raised' = "AttributeError"
              /\ todo' = <<>>
              /\ UNCHANGED <<power_ranks, returned>>
         ELSE /\ power_ranks' = PowerRanks(matchups, rosters)
              /\ todo' = Tail(todo)
              /\ returned' = returned \cup {"calculate_power_rankings"}
              /\ UNCHANGED raised
    /\ UNCHANGED <<strength, winners, losers>>
    /\ UNCHANGED <<season, week, results, matchups, users, rosters, standings, box_scores>>

(* --------------------------- format_standings -------------------------- *)

\* metadata.team_name of a user (get_users): user 2 has set none.
TeamNameOf(u) == IF u = 2 THEN Null ELSE 10 + u

\* The join as an inner join: a roster without a user is dropped.
InnerJoinUsers(rs, us) ==
    LET kept == SelectSeq(rs, LAMBDA r : r.owner_id \in us)
    IN  [i \in 1..Len(kept) |->
            [roster_id |-> kept[i].roster_id, wins |-> kept[i].wins,
             ties |-> kept[i].ties, losses |-> kept[i].losses,
             points_for |-> kept[i].points_for,
             points_against |-> kept[i].points_against,
             display_name |-> kept[i].owner_id,
             team_name |-> TeamNameOf(kept[i].owner_id)]]

\* rosters_copy.join(users_copy): a left join on owner_id = user_id.
JoinUsers(rs, us) ==
    [i \in 1..Len(rs) |->
        [roster_id |-> rs[i].roster_id, wins |-> rs[i].wins, ties |-> rs[i].ties,
         losses |-> rs[i].losses, points_for |-> rs[i].points_for,
         points_against |-> rs[i].points_against,
         display_name |-> IF rs[i].owner_id \in us THEN rs[i].owner_id ELSE Null,
         team_name |-> IF rs[i].owner_id \in us THEN TeamNameOf(rs[i].owner_id) ELSE Null]]

\* f'{wins}-{losses}' if ties == 0 else f'{wins}-{ties}-{losses}'
Record(wins, ties, losses) ==
    IF ties = 0 THEN <<wins, losses>> ELSE <<wins, ties, losses>>

\* standings.merge(power_ranks_copy, on = 'roster_id', how = 'left'), then the
\* record column.
MergePower(frame, pr) ==
    Concat([i \in 1..Len(frame) |->
        LET found == SelectSeq(pr, LAMBDA p : p.roster_id = frame[i].roster_id)
            Row(score) ==
                [roster_id |-> frame[i].roster_id, wins |-> frame[i].wins,
                 ties |-> frame[i].ties, losses |-> frame[i].losses,
                 points_for |-> frame[i].points_for,
                 points_against |-> frame[i].points_against,
                 display_name |-> frame[i].display_name,
                 team_name |-> frame[i].team_name,
                 rank_score |-> score,
                 record |-> Record(frame[i].wins, frame[i].ties, frame[i].losses)]
        IN  IF found = <<>> THEN <<Row(NaN)>>
            ELSE [k \in 1..Len(found) |-> Row(found[k].rank_score)]])

\* sort_values(['rank_score', 'points_for'], ascending = False)
PowerBefore(a, b) ==
    \/ DescNaNLast(a.rank_score, b.rank_score)
    \/ a.rank_score = b.rank_score /\ a.points_for > b.points_for

\* The order on wins alone.
WinsBefore(a, b) == a.wins > b.wins

\* sort_values(['wins', 'points_for'], ascending = False)
RankBefore(a, b) ==
    \/ a.wins > b.wins
    \/ a.wins = b.wins /\ a.points_for > b.points_for

\* standings['Power Rank'] = [i for i in range(1, standings.shape[0] + 1)]
NumberPowerRank(frame) ==
    [i \in 1..Len(frame) |->
        [roster_id |-> frame[i].roster_id, wins |-> frame[i].wins,
         ties |-> frame[i].ties, losses |-> frame[i].losses,
         points_for |-> frame[i].points_for,
         points_against |-> frame[i].points_against,
         display_name |-> frame[i].display_name, team_name |-> frame[i].team_name,
         rank_score |-> frame[i].rank_score, record |-> frame[i].record,
         power_rank |-> i]]

\* standings['Rank'] = [i for i in range(1, standings.shape[0] + 1)]
NumberRank(frame) ==
    [i \in 1..Len(frame) |->
        [roster_id |-> frame[i].roster_id, wins |-> frame[i].wins,
         ties |-> frame[i].ties, losses |-> frame[i].losses,
         points_for |-> frame[i].points_for,
         points_against |-> frame[i].points_against,
         display_name |-> frame[i].display_name, team_name |-> frame[i].team_name,
         rank_score |-> frame[i].rank_score, record |-> frame[i].record,
         power_rank |-> frame[i].power_rank,
         rank |-> i]]

\* The frame of format_standings once both ranks are assigned (before the
\* wins, ties and losses columns are dropped).
StandingsFrame(us, rs, pr) ==
    NumberRank(SortRows(NumberPowerRank(SortRows(MergePower(JoinUsers(rs, us), pr),
                                                 PowerBefore)),
                        RankBefore))

\* format_standings(users, rosters, power_ranks)
FormatStandings ==
    /\ todo # <<>> /\ Head(todo) = "format_standings"
    /\ standings' = StandingsFrame(users, rosters, power_ranks)
    /\ todo' = Tail(todo)
    /\ returned' = returned \cup {"format_standings"}
    /\ UNCHANGED <<strength, winners, losers>>
    /\ UNCHANGED <<season, week, results, matchups, users, rosters, win_percent,
                   power_ranks, box_scores, raised>>

\* The frame format_standings returns: Rank, Power Rank, Team, Owner,
\* Points For, Points Against, Record.
Standings(frame) ==
    [i \in 1..Len(frame) |->
        [Rank |-> frame[i].rank, PowerRank |-> frame[i].power_rank,
         Team |-> frame[i].team_name, Owner |-> frame[i].display_name,
         PointsFor |-> frame[i].points_for,
         PointsAgainst |-> frame[i].points_against,
         Record |-> frame[i].record]]

(* --------------------------- format_strength --------------------------- *)

\* Series.mean(): the mean m of a column is kept as the exact number
\* Scale * m (the number of rows divides Scale); NaN for a column without rows.
Mean(s) == IF Len(s) = 0 THEN NaN ELSE (SumSeq(s) * Scale) \div Len(s)

\* x > avg, for a cell x and a mean kept as Scale * m.
Above(x, avg) == x * Scale > avg

\* get_strength_group with `points_against < avg_against` in its second test.
GetStrengthGroupStrict(points_for, points_against, avg_for, avg_against) ==
    IF Above(points_for, avg_for) /\ Above(points_against, avg_against)
      THEN "Mediocre"
    ELSE IF Above(points_for, avg_for) /\ points_against * Scale < avg_against
      THEN "Juggernaut"
    ELSE IF ~Above(points_for, avg_for) /\ Above(points_against, avg_against)
      THEN "Trash"
    ELSE "Mediocre"

\* get_strength_group(df, avg_for, avg_against): the value of df['Group'].
GetStrengthGroup(points_for, points_against, avg_for, avg_against) ==
    IF Above(points_for, avg_for) /\ Above(points_against, avg_against)
      THEN "Mediocre"
    ELSE IF Above(points_for, avg_for) /\ ~Above(points_against, avg_against)
      THEN "Juggernaut"
    ELSE IF ~Above(points_for, avg_for) /\ Above(points_against, avg_against)
      THEN "Trash"
    ELSE "Mediocre"

\* strength.merge(users_copy, on = 'Owner', how = 'left'): the user whose
\* avatar the row gets (display names are unique), Null when there is none.
AvatarOf(owner, us) == IF owner # Null /\ owner \in us THEN owner ELSE Null

\* The frame format_strength returns for the standings table st.
StrengthFrame(st, us) ==
    LET avg_points_for     == Mean([i \in 1..Len(st) |-> st[i].PointsFor])
        avg_points_against == Mean([i \in 1..Len(st) |-> st[i].PointsAgainst])
    IN  [i \in 1..Len(st) |->
            [Rank |-> st[i].Rank, PowerRank |-> st[i].PowerRank,
             Team |-> st[i].Team, Owner |-> st[i].Owner,
             PointsFor |-> st[i].PointsFor,
             PointsAgainst |-> st[i].PointsAgainst,
             Record |-> st[i].Record,
             Group |-> GetStrengthGroup(st[i].PointsFor, st[i].PointsAgainst,
                                        avg_points_for, avg_points_against),
             avatar |-> AvatarOf(st[i].Owner, us)]]

\* format_strength(users, standings)
FormatStrength ==
    /\ todo # <<>> /\ Head(todo) = "format_strength"
    /\ strength' = StrengthFrame(Standings(standings), users)
    /\ todo' = Tail(todo)
    /\ returned' = returned \cup {"format_strength"}
    /\ UNCHANGED <<season, week, results, matchups, users, rosters, win_percent,
                   power_ranks, standings, box_scores, winners, losers, raised>>

(* ------------------------ format_winners_losers ------------------------ *)

\* `standings_copy.Rank < 7`: the first rank of the losers bracket.
BracketCutoff == 7

\* standings[['Rank', 'Team', 'Owner']]
Bracket(st) ==
    [i \in 1..Len(st) |->
        [Rank |-> st[i].Rank, Team |-> st[i].Team, Owner |-> st[i].Owner]]

\* The winners filter with `Rank <= 7`.
WinnersThrough(st) ==
    SelectSeq(Bracket(st), LAMBDA row : row.Rank <= BracketCutoff)

\* winners = standings_copy[standings_copy.Rank < 7]
Winners(st) ==
    SelectSeq(Bracket(st), LAMBDA row : row.Rank < BracketCutoff)

\* losers = standings_copy[standings_copy.Rank >= 7].reset_index(drop = True)
Losers(st) ==
    SelectSeq(Bracket(st), LAMBDA row : row.Rank >= BracketCutoff)

\* format_winners_losers(standings)
FormatWinnersLosers ==
    /\ todo # <<>> /\ Head(todo) = "format_winners_losers"
    /\ winners' = Winners(Standings(standings))
    /\ losers' = Losers(Standings(standings))
    /\ todo' = Tail(todo)
    /\ returned' = returned \cup {"format_winners_losers"}
    /\ UNCHANGED <<season, week, results, matchups, users, rosters, win_percent,
                   power_ranks, standings, box_scores, strength, raised>>

(* ------------------------------ the script ----------------------------- *)

\* current_week = matchups[matchups.week == max(matchups.week)]: a frame
\* without columns has no attribute week.
CurrentWeek ==
    /\ todo # <<>> /\ Head(todo) = "current_week"
    /\ IF matchups = <<>>
         THEN raised' = "AttributeError" /\ todo' = <<>> /\ UNCHANGED returned
         ELSE /\ todo' = Tail(todo)
              /\ returned' = returned \cup {"current_week"}
              /\ UNCHANGED raised
    /\ UNCHANGED <<strength, winners, losers>>
    /\ UNCHANGED <<season, week, results, matchups, users, rosters, win_percent,
                   power_ranks, standings, box_scores>>

\* The calls of the script, from `matchups = get_matchups()` on.
Script ==
    <<"get_matchups", "current_week", "calculate_power_rankings",
      "format_standings", "format_strength", "format_winners_losers",
      "format_rank_race">>

\* One row of get_rosters(): roster r is owned by user r.
RosterRow(r, rec, pf, pa) ==
    [roster_id |-> r, owner_id |-> r, wins |-> rec[1], ties |-> rec[2],
     losses |-> rec[3], points_for |-> pf, points_against |-> pa]

\* The frames get_rosters() may return for a league of n rosters.
RosterFrames(n, recs, pfs) ==
    {[r \in 1..n |-> RosterRow(r, rec[r], pf[r], 0)] :
        rec \in [1..n -> recs], pf \in [1..n -> pfs]}

\* The state as get_matchups() is entered.
Start(plan, weeks) ==
    /\ todo = plan
    /\ season = weeks
    /\ week = 1
    /\ results = <<>>
    /\ matchups = <<>>
    /\ win_percent = <<>>
    /\ standings = <<>>
    /\ box_scores = <<>>
    /\ strength = <<>>
    /\ winners = <<>>
    /\ losers = <<>>
    /\ raised = ""
    /\ returned = {}

Init ==
    /\ Start(Script, MaxWeeks - 1)
    /\ power_ranks = <<>>
    /\ users \in {RosterIds, RosterIds \ {3}}
    /\ rosters \in RosterFrames(Cardinality(RosterIds), Records, {0})

Next ==
    \/ GetMatchups
    \/ CurrentWeek
    \/ CalculatePowerRankings
    \/ FormatStandings
    \/ FormatStrength
    \/ FormatWinnersLosers
    \/ FormatRankRace

Spec == Init /\ [][Next]_vars

(* get_matchups(); format_rank_race(matchups, users, rosters) *)

InitRace ==
    /\ Start(<<"get_matchups", "format_rank_race">>, MaxWeeks)
    /\ power_ranks = <<>>
    /\ users \in {RosterIds, RosterIds \ {3}}
    /\ rosters \in RosterFrames(Cardinality(RosterIds), {<<0, 0, 0>>}, {0})

NextRace == GetMatchups \/ FormatRankRace

SpecRace == InitRace /\ [][NextRace]_vars

(* get_matchups(); calculate_power_rankings(matchups, rosters) *)

InitPower ==
    /\ Start(<<"get_matchups", "calculate_power_rankings">>, MaxWeeks - 1)
    /\ power_ranks = <<>>
    /\ users = RosterIds
    /\ rosters \in RosterFrames(Cardinality(RosterIds), Records, {0})

NextPower == GetMatchups \/ CalculatePowerRankings

SpecPower == InitPower /\ [][NextPower]_vars

(* format_standings(users, rosters, power_ranks) *)

\* The frames calculate_power_rankings may hand over for a league of n
\* rosters: per roster no row, or a row holding a sum of win percentages.
PowerFrames(n) ==
    {SelectSeq([r \in 1..n |-> [roster_id |-> r, rank_score |-> f[r]]],
               LAMBDA row : row.rank_score # NaN) :
        f \in [1..n -> {NaN, 0, Scale}]}

InitStandings ==
    /\ Start(<<"format_standings">>, 0)
    /\ users \in SUBSET RosterIds
    /\ \E n \in 1..Cardinality(RosterIds) :
         /\ rosters \in RosterFrames(n, Records, {0, 1})
         /\ power_ranks \in PowerFrames(n)

NextStandings == FormatStandings

SpecStandings == InitStandings /\ [][NextStandings]_vars

(* get_matchups() against an API that may serve any week *)

\* A week nobody scored in: roster 1 meets roster 2, roster 3 has no opponent.
ScorelessWeek ==
    [r \in RosterIds |->
        [roster_id |-> r, points |-> 0, matchup_id |-> IF r = 2 THEN 1 ELSE r]]

\* The API of a long season: after the weeks that `season` covers it still
\* answers, with nothing or with a scoreless week.
GetMatchupsAnyWeek ==
    \E resp \in Responses(week, matchups) \cup {ScorelessWeek} : GetMatchupsStep(resp)

InitFetch ==
    /\ Start(<<"get_matchups">>, MaxWeeks - 1)
    /\ power_ranks = <<>>
    /\ users = RosterIds
    /\ rosters \in RosterFrames(Cardinality(RosterIds), {<<0, 0, 0>>}, {0})

NextFetch == GetMatchupsAnyWeek

\* The loop keeps running: every request is answered (a failed request is
\* outside this model), so an enabled iteration is eventually taken.
SpecFetch == InitFetch /\ [][NextFetch]_vars /\ WF_vars(NextFetch)

(* format_standings(...); format_winners_losers(standings) *)

\* Leagues of 1..MaxTeams rosters, each without games or with one win; nobody
\* has been paired yet, so the power table has no rows.
InitBrackets ==
    /\ Start(<<"format_standings", "format_winners_losers">>, 0)
    /\ power_ranks = <<>>
    /\ \E n \in 1..MaxTeams :
         /\ users = 1..n
         /\ rosters \in RosterFrames(n, {<<0, 0, 0>>, <<1, 0, 0>>}, {0})

NextBrackets == FormatStandings \/ FormatWinnersLosers

SpecBrackets == InitBrackets /\ [][NextBrackets]_vars

(* format_standings(...); format_strength(users, standings) *)

\* The frames get_rosters() may return for a league of n rosters without
\* games, with any points for and against.
ScoredRosterFrames(n, pts) ==
    {[r \in 1..n |-> RosterRow(r, <<0, 0, 0>>, pf[r], pa[r])] :
        pf \in [1..n -> pts], pa \in [1..n -> pts]}

InitStrength ==
    /\ Start(<<"format_standings", "format_strength">>, 0)
    /\ power_ranks = <<>>
    /\ users \in {RosterIds, RosterIds \ {3}}
    /\ \E n \in 1..Cardinality(RosterIds) :
         rosters \in ScoredRosterFrames(n, 0..MaxPoints)

NextStrength == FormatStandings \/ FormatStrength

SpecStrength == InitStrength /\ [][NextStrength]_vars

(* ============================== claims ================================ *)

Ret(call) == call \in returned

Games(r) == r.wins + r.ties + r.losses

\* The sum of f over a finite set.
RECURSIVE SumOver(_, _)
SumOver(S, f) ==
    IF S = {} THEN 0
    ELSE LET x == CHOOSE y \in S : TRUE IN f[x] + SumOver(S \ {x}, f)

Rows(frame) == 1..Len(frame)

\* The rows of a frame that belong to roster r.
RowsOfRoster(frame, r) == {i \in Rows(frame) : frame[i].roster_id = r}

\* The pairs (i, j) of matchup rows that set a roster against an opponent:
\* another roster's entry of the same week and matchup_id.
Opposed(i, j) ==
    /\ matchups[i].roster_id # matchups[j].roster_id
    /\ matchups[i].week = matchups[j].week
    /\ matchups[i].matchup_id = matchups[j].matchup_id

Pairings(r) ==
    {p \in RowsOfRoster(matchups, r) \X Rows(matchups) : Opposed(p[1], p[2])}

\* The entries of matchup row i's week that share its matchup_id (itself included).
GroupSize(i) ==
    Cardinality({j \in Rows(matchups) :
        /\ matchups[j].week = matchups[i].week
        /\ matchups[j].matchup_id = matchups[i].matchup_id})

(* ---- C1 ---- *)

\* C1: every roster with wins + ties + losses = 0 has win percentage 0 in
\* calculate_power_rankings and power score 0, in the power table and in the
\* standings frame; neither is NaN or missing.
C1_ZeroGamesZeroScore ==
    \A i \in Rows(rosters) :
        Games(rosters[i]) = 0 =>
            /\ Ret("calculate_power_rankings") =>
                 /\ \A k \in RowsOfRoster(win_percent, rosters[i].roster_id) :
                        win_percent[k].win_percent = 0
                 /\ \A k \in RowsOfRoster(power_ranks, rosters[i].roster_id) :
                        power_ranks[k].rank_score = 0
            /\ Ret("format_standings") =>
                 \A k \in RowsOfRoster(standings, rosters[i].roster_id) :
                     standings[k].rank_score = 0

(* ---- C2 ---- *)

\* wins / (wins + ties + losses) of roster r on the model's scale; a roster
\* without games adds nothing to a sum.
SeasonWinPercent(r) ==
    LET row == rosters[CHOOSE i \in Rows(rosters) : rosters[i].roster_id = r]
    IN  IF Games(row) = 0 THEN 0 ELSE (row.wins * Scale) \div Games(row)

\* What one pairing is worth: the opponent's win percentage when the roster
\* outscored the opponent, nothing otherwise (a tie included).
PairingWorth ==
    [p \in Rows(matchups) \X Rows(matchups) |->
        IF matchups[p[1]].points > matchups[p[2]].points
          THEN SeasonWinPercent(matchups[p[2]].roster_id) ELSE 0]

\* C2: a roster with at least one opponent pairing has exactly one row in the
\* power table, and its score is the sum over its (week, opponent) pairings
\* of the opponent's season win percentage where the roster scored strictly
\* more, and of 0 elsewhere.
C2_PowerScoreIsSum ==
    Ret("calculate_power_rankings") =>
        \A i \in Rows(rosters) :
            LET r == rosters[i].roster_id IN
            Pairings(r) # {} =>
                /\ Cardinality(RowsOfRoster(power_ranks, r)) = 1
                /\ \A k \in RowsOfRoster(power_ranks, r) :
                       power_ranks[k].rank_score = SumOver(Pairings(r), PairingWorth)

\* A roster met one opponent, outscored it, and holds that opponent's
\* (non-zero) win percentage as its power score.
C2_Witness ==
    /\ Ret("calculate_power_rankings")
    /\ \E k \in Rows(power_ranks) :
         LET r == power_ranks[k].roster_id IN
         /\ Cardinality(Pairings(r)) = 1
         /\ power_ranks[k].rank_score > 0
         /\ \A p \in Pairings(r) :
                power_ranks[k].rank_score = SeasonWinPercent(matchups[p[2]].roster_id)

(* ---- C3 ---- *)

\* The rows of a frame that belong to the roster and week of matchup row i.
RowsOfEntry(frame, i) ==
    {k \in Rows(frame) :
        /\ frame[k].roster_id = matchups[i].roster_id
        /\ frame[k].week = matchups[i].week}

NoSelfPairing(frame) == \A k \in Rows(frame) : frame[k].roster_id # frame[k].opponent_id

\* The opponent pairing of the roster of matchup row i in calculate_power_rankings.
PowerPairingOf(i) == PowerPairing(matchups[i].roster_id, matchups, RostersCopy(rosters))

WeeksWon(r, w) ==
    {matchups[p[1]].week : p \in {q \in Pairings(r) :
        /\ matchups[q[1]].week <= w
        /\ matchups[q[1]].points > matchups[q[2]].points}}

\* The points of roster r over its entries of the weeks up to w.
PointsThrough(r, w) ==
    SumOver({i \in RowsOfRoster(matchups, r) : matchups[i].week <= w},
            [i \in Rows(matchups) |-> matchups[i].points])

\* C4: in every row of the format_rank_race output, Points is the sum of the
\* roster's weekly points over all its entries of weeks <= Week, and Wins is
\* the number of weeks <= Week in which it outscored its opponent.
C4_CumulativeOverAllWeeks ==
    Ret("format_rank_race") =>
        \A k \in Rows(box_scores) :
            /\ RankRace(box_scores)[k].Points =
                   PointsThrough(box_scores[k].roster_id, RankRace(box_scores)[k].Week)
            /\ RankRace(box_scores)[k].Wins =
                   Cardinality(WeeksWon(box_scores[k].roster_id, RankRace(box_scores)[k].Week))

(* ---- C5 ---- *)

\* C5: for two rows of the format_rank_race output of the same roster, the
\* row of the earlier week has no more Wins and no more Points than the row
\* of the later week.
C5_CumulativeMonotone ==
    Ret("format_rank_race") =>
        \A a, b \in Rows(box_scores) :
            (/\ box_scores[a].roster_id = box_scores[b].roster_id
             /\ RankRace(box_scores)[a].Week < RankRace(box_scores)[b].Week) =>
                /\ RankRace(box_scores)[a].Wins <= RankRace(box_scores)[b].Wins
                /\ RankRace(box_scores)[a].Points <= RankRace(box_scores)[b].Points

\* A roster has rows in two weeks, and both Wins and Points grew.
C5_Witness ==
    /\ Ret("format_rank_race")
    /\ \E a, b \in Rows(box_scores) :
         /\ box_scores[a].roster_id = box_scores[b].roster_id
         /\ RankRace(box_scores)[a].Week < RankRace(box_scores)[b].Week
         /\ RankRace(box_scores)[a].Wins < RankRace(box_scores)[b].Wins
         /\ RankRace(box_scores)[a].Points < RankRace(box_scores)[b].Points

(* ---- C6 ---- *)

\* The rows of the rank race that belong to week w.
RowsOfWeek(frame, w) == {k \in Rows(frame) : frame[k].week = w}

\* Within every week the ranks are 1..(rows of the week), descending by
\* (Wins, Points).
RanksOrdered(frame) ==
    \A k \in Rows(frame) :
        /\ {RankRace(frame)[j].Rank : j \in RowsOfWeek(frame, frame[k].week)} =
               1..Cardinality(RowsOfWeek(frame, frame[k].week))
        /\ \A j \in RowsOfWeek(frame, frame[k].week) :
               RankRace(frame)[k].Rank < RankRace(frame)[j].Rank =>
                   \/ RankRace(frame)[k].Wins > RankRace(frame)[j].Wins
                   \/ /\ RankRace(frame)[k].Wins = RankRace(frame)[j].Wins
                      /\ RankRace(frame)[k].Points >= RankRace(frame)[j].Points

\* C6: the format_rank_race output has exactly one row for every matchup
\* entry (roster, week), and within each week the ranks are a permutation of
\* 1..N, N the number of rosters with an entry that week, descending by
\* (Wins, Points).
C6_OneRowPerEntryRanked ==
    Ret("format_rank_race") =>
        /\ \A i \in Rows(matchups) : Cardinality(RowsOfEntry(box_scores, i)) = 1
        /\ \A k \in Rows(box_scores) :
               Cardinality(RowsOfWeek(box_scores, box_scores[k].week)) =
                   Cardinality(RowsOfWeek(matchups, box_scores[k].week))
        /\ RanksOrdered(box_scores)

(* ---- C7 ---- *)

\* wins of a row of the standings: the first number of its Record.
WinsOf(row) == row.Record[1]

\* C7: the Rank column of format_standings is a permutation of 1..N, N the
\* number of rosters, and a row of smaller Rank has more wins, or as many
\* wins and at least as many points_for.
C7_RankIsOrderedPermutation ==
    Ret("format_standings") =>
        LET out == Standings(standings) IN
        /\ Len(out) = Len(rosters)
        /\ {out[k].Rank : k \in Rows(out)} = 1..Len(rosters)
        /\ \A a, b \in Rows(out) :
               out[a].Rank < out[b].Rank =>
                   \/ WinsOf(out[a]) > WinsOf(out[b])
                   \/ /\ WinsOf(out[a]) = WinsOf(out[b])
                      /\ out[a].PointsFor >= out[b].PointsFor

\* Three rosters are ranked: wins decide between two of them, points_for
\* between two with the same wins.
C7_Witness ==
    /\ Ret("format_standings")
    /\ Len(standings) = 3
    /\ \E a, b, c \in Rows(standings) :
         LET out == Standings(standings) IN
         /\ out[a].Rank < out[b].Rank /\ out[b].Rank < out[c].Rank
         /\ WinsOf(out[a]) > WinsOf(out[b])
         /\ WinsOf(out[b]) = WinsOf(out[c])
         /\ out[b].PointsFor > out[c].PointsFor

(* ---- C8 ---- *)

\* C8: with an empty matchup history (get_matchups returned its initial
\* frame) calculate_power_rankings does not raise, and once it has returned
\* every power score it reports is 0.
C8_EmptyHistoryDegrades ==
    (Ret("get_matchups") /\ matchups = <<>>) =>
        /\ raised = ""
        /\ Ret("calculate_power_rankings") =>
               \A k \in Rows(power_ranks) : power_ranks[k].rank_score = 0

(* ---- C9 ---- *)

\* C9: format_standings returns exactly one row per roster; the row of a
\* roster whose owner_id is no user_id has null Team and Owner, and a roster
\* without a row in the power table has its one row too.
C9_OneRowPerRoster ==
    Ret("format_standings") =>
        /\ Len(Standings(standings)) = Len(standings)
        /\ \A i \in Rows(rosters) :
               /\ Cardinality(RowsOfRoster(standings, rosters[i].roster_id)) = 1
               /\ \A k \in RowsOfRoster(standings, rosters[i].roster_id) :
                      rosters[i].owner_id \notin users =>
                          /\ Standings(standings)[k].Team = Null
                          /\ Standings(standings)[k].Owner = Null

\* The standings hold a roster whose owner is unknown and a roster without
\* a power score.
C9_Witness ==
    /\ Ret("format_standings")
    /\ \E i \in Rows(rosters) :
         /\ rosters[i].owner_id \notin users
         /\ RowsOfRoster(standings, rosters[i].roster_id) # {}
    /\ \E i \in Rows(rosters) :
         /\ RowsOfRoster(power_ranks, rosters[i].roster_id) = {}
         /\ RowsOfRoster(standings, rosters[i].roster_id) # {}

(* ---- C10 ---- *)

\* The weeks of the frame's rows, in frame order.
WeeksFetched == MapSeq(matchups, LAMBDA row : row.week)

\* What get_matchups returns: rows of the weeks 1..m in increasing order,
\* m = week - 1 <= 15, having stopped on an empty response or on week 16.
FetchResult ==
    Ret("get_matchups") =>
        /\ week - 1 <= WeekCeiling
        /\ results = <<>> \/ week = WeekCeiling + 1
        /\ {WeeksFetched[k] : k \in Rows(matchups)} = 1..(week - 1)
        /\ \A a, b \in Rows(matchups) : a <= b => WeeksFetched[a] <= WeeksFetched[b]

\* What one iteration does: an empty response, or one for a week past 15,
\* ends the loop and leaves the frame; any other response is appended with
\* its rows tagged with the week asked for.
FetchStep ==
    IF results' = <<>> \/ week > WeekCeiling
      THEN Ret("get_matchups")' /\ matchups' = matchups
      ELSE /\ ~Ret("get_matchups")'
           /\ week' = week + 1
           /\ Len(matchups') = Len(matchups) + Len(results')
           /\ \A k \in 1..Len(results') :
                  /\ matchups'[Len(matchups) + k].week = week
                  /\ matchups'[Len(matchups) + k].roster_id = results'[k].roster_id
                  /\ matchups'[Len(matchups) + k].points = results'[k].points
                  /\ matchups'[Len(matchups) + k].matchup_id = results'[k].matchup_id
           /\ SubSeq(matchups', 1, Len(matchups)) = matchups

\* C10: whatever the API answers, get_matchups returns; it stops at the first
\* empty response or after week 15, and the frame holds the weeks 1..m in
\* increasing order, m = min(15, first empty week - 1), every row tagged
\* with the week it was fetched for.
C10_FetchTerminates ==
    /\ <>Ret("get_matchups")
    /\ []FetchResult
    /\ [][FetchStep]_vars

\* The API never answered with an empty week: the loop stopped on the
\* ceiling with 15 weeks fetched.
C10_Witness ==
    /\ Ret("get_matchups")
    /\ results # <<>>
    /\ {WeeksFetched[k] : k \in Rows(matchups)} = 1..WeekCeiling

\* C11: once format_winners_losers has returned for a standings table of N
\* rows whose Rank column is a permutation of 1..N, the winners are exactly
\* the rows with Rank < 7 (min(N, 6) of them), the losers exactly the rows
\* with Rank >= 7 (max(N - 6, 0) of them), no row is in both brackets and
\* every row is in one of them.
RanksOf(frame) == {frame[i].Rank : i \in Rows(frame)}

RowSet(frame) == {frame[i] : i \in Rows(frame)}

Min(a, b) == IF a <= b THEN a ELSE b

Max(a, b) == IF a >= b THEN a ELSE b

C11_BracketsPartitionAtSeven ==
    Ret("format_winners_losers") =>
        LET st == Standings(standings)
            N  == Len(st)
        IN  RanksOf(st) = 1..N =>
                /\ Len(winners) = Min(N, 6)
                /\ Len(losers) = Max(N - 6, 0)
                /\ RanksOf(winners) = 1..Min(N, 6)
                /\ RanksOf(losers) = 7..N
                /\ RowSet(winners) \cap RowSet(losers) = {}
                /\ RowSet(winners) \cup RowSet(losers) =
                       {[Rank |-> st[i].Rank, Team |-> st[i].Team,
                         Owner |-> st[i].Owner] : i \in Rows(st)}

\* Ten teams: six winners (Rank 1-6) and four losers (Rank 7-10).
C11_Witness ==
    /\ Ret("format_winners_losers")
    /\ Len(standings) = 10
    /\ RanksOf(Standings(standings)) = 1..10
    /\ RanksOf(winners) = 1..6
    /\ RanksOf(losers) = 7..10

\* C12: once format_strength has returned, every standings row has exactly
\* one row in the strength table, labelled against the league-wide means of
\* Points For and Points Against: Juggernaut iff points_for > mean_for and
\* points_against <= mean_against, Trash iff points_for <= mean_for and
\* points_against > mean_against, Mediocre in the two other quadrants.
\* (x > mean is compared as x * N > total, N the number of rows.)
TotalFor(st) == SumOver(Rows(st), [i \in Rows(st) |-> st[i].PointsFor])

TotalAgainst(st) == SumOver(Rows(st), [i \in Rows(st) |-> st[i].PointsAgainst])

Quadrant(row, st) ==
    LET N       == Len(st)
        strong  == row.PointsFor * N > TotalFor(st)
        beaten  == row.PointsAgainst * N > TotalAgainst(st)
    IN  IF strong /\ ~beaten THEN "Juggernaut"
        ELSE IF ~strong /\ beaten THEN "Trash"
        ELSE "Mediocre"

ScoreOrZero(row) == IF row.rank_score = NaN THEN 0 ELSE row.rank_score

C13_PowerRankZeroDefault ==
    Ret("format_standings") =>
        /\ {standings[i].power_rank : i \in Rows(standings)} = 1..Len(standings)
        /\ \A a, b \in Rows(standings) :
               standings[a].power_rank < standings[b].power_rank =>
                   \/ ScoreOrZero(standings[a]) > ScoreOrZero(standings[b])
                   \/ /\ ScoreOrZero(standings[a]) = ScoreOrZero(standings[b])
                      /\ standings[a].points_for >= standings[b].points_for

====
